---- MODULE Spec2Model ----
(***************************************************************************)
(* A model of gserv's request-dispatch chain (groupHandlerChain.Serve), of *)
(* its multi-window rate limiter (Limiter, Limiters), of its groups and of *)
(* the server's shutdown.                                                  *)
(*                                                                         *)
(* Among the specifications that share the module:                         *)
(*   SpecDispatch  one request served by groupHandlerChain.Serve           *)
(*   SpecLimiter   concurrent Allowed calls on one Limiter                 *)
(*   SpecRegistry  concurrent Limiters.Get / Allowed calls on a registry   *)
(*   SpecKeys      the same with each Limiter's lock taken in its own step *)
(*   SpecClose     concurrent Close / Shutdown calls on one Server         *)
(*   SpecGroup     Use and SubGroup on a tree of groups                    *)
(*   SpecSubRoute  a route of a sub-group, dispatched                      *)
(*   SpecPool      requests served in turn with one pooled context         *)
(***************************************************************************)
EXTENDS Integers, Sequences, FiniteSets, TLC

(***************************************************************************)
(* Bounds of the model.                                                    *)
(***************************************************************************)
\* longest group middleware list (len(ghc.g.mw))
MaxMW == 2
\* longest route handler list (len(ghc.hc))
MaxHC == 2
\* how often one unit writes to the context itself while it runs
MaxUnitWrites == 1
\* how often one unit calls ctx.Next() while it runs
MaxNextCalls == 1
\* Allowed calls in one behaviour
MaxCalls == 3
\* Get calls in one behaviour
MaxGets == 3
\* Allowed calls and advances of the clock in one behaviour of a registry
MaxRegCalls == 2
MaxRegTicks == 1
\* advances of the clock in one behaviour
MaxTicks == 2
\* requests that reach the admission middleware in one behaviour
MaxReqs == 2
\* Get calls, and Allowed calls, in one behaviour of a registry with its sweep
MaxSweepCalls == 2
\* Get calls, and Allowed calls, in one behaviour of a registry whose
\* limiters' locks are taken in a step of their own
MaxKeyCalls == 2
\* routes registered in one behaviour
MaxRoutes == 3
\* longest path requested, in segments (the path of TestBugGithub3 apart)
MaxPathLen == 3
\* Close and Shutdown calls, underlying servers started, and Closed calls
\* in one behaviour
MaxCloseCalls == 3
MaxServers == 2
MaxObs == 2
\* groups of one server, its own included
MaxGroups == 3
\* the capacity that append may give a new array beyond what is needed
MaxSpare == 1
\* middleware values handed to Use and SubGroup in one build phase
MaxHanded == 3
\* requests served one after the other with one pooled context
MaxRequests == 2
\* middleware, and handlers, of the chain those requests are dispatched to
MaxPoolUnits == 1
\* groups, and middleware values handed over, in a build phase that is
\* followed by a request
MaxRouteGroups == 2
MaxRouteHanded == 2

(***************************************************************************)
(* Constants of the program, in seconds.                                   *)
(***************************************************************************)
\* time.Hour, time.Minute and time.Second
SecondsPerHour == 3600
SecondsPerMinute == 60
SecondsPerSecond == 1
\* the ages after which Allowed restarts the hour, minute, second window
HourAge == 3599
MinuteAge == 59
SecondAge == 0

VARIABLES
    \* ---- dispatch chain ----
    nMW,        \* len(ghc.g.mw)
    nHC,        \* len(ghc.hc)
    pcServe,    \* "idle" | "running" | "returned": position of Serve
    mwIdx,      \* Serve's local mwIdx
    hIdx,       \* Serve's local hIdx
    done,       \* ctx.done
    nextMW,     \* ctx.nextMW # nil
    next,       \* ctx.next # nil
    stack,      \* the call stack of the worker below Serve
    out,        \* history: what was written to the underlying output
    invoked,    \* history: the units invoked, in order
    retval,     \* history: what each unit returned ("none" while it has not)
    doneSets,   \* history: how often ctx.done went from false to true
    \* ---- rate limiter ----
    cfg,        \* the maxima a limiter is created with
    clock,      \* time.Now().Unix(), counted from the start of the behaviour
    ticks,      \* how often the clock advanced
    lims,       \* the Limiter objects created so far, by identity 1, 2, ...
    m,          \* Limiters.m: key -> identity of its Limiter (0: no entry)
    pc,         \* per goroutine: "idle" | "getSlow" | "lock" | "held"
    key,        \* per goroutine: the key of its running Get
    cur,        \* per goroutine: the Limiter it holds (0: none)
    now,        \* per goroutine: Allowed's local now
    fresh,      \* per goroutine: no call completed since its Allowed began
    gets,       \* Get calls begun
    calls,      \* Allowed calls begun
    got,        \* history: the results of the completed Get calls: <<key,
                \* identity, "read" | "reread" | "made">>, by where Get found it
    made,       \* history: per key, the Limiters created for it
    tally,      \* history: per Limiter, counts of its completed Allowed calls
    hist,       \* history: the last two completed Allowed calls, in lock order
    lastPre,    \* history: the Limiter as the last completed call found it
    \* ---- server: faults, cancellation, requests no route matches ----
    route,              \* "matched" | "none": what the router found for the request
    cancelled,          \* the request's cancellation signal has fired
    srvPanicHandler,    \* srv.PanicHandler # nil
    srvNotFoundHandler, \* srv.NotFoundHandler # nil
    fault,      \* "none", or the unit that panicked while Serve ran it
    phCalls,    \* history: how often srv.PanicHandler was invoked
    pcNF,       \* "idle" | "called" | "returned": position of the router's
                \* NotFoundHandler for a request no route matches
    nfCalls,    \* history: how often srv.NotFoundHandler was invoked
    nfOut,      \* history: what was written to the output of that request
    \* ---- admission middleware (RateLimiter) ----
    setHeaders, \* the setHeaders argument of RateLimiter
    rl,         \* per goroutine: the request the middleware is running for
    reqs,       \* requests the middleware was invoked for
    lastReq,    \* history: the last request the middleware returned for
    \* ---- background sweep of the registry (Limiters.clean) ----
    ctxCancelled,   \* the context passed to NewLimiters has been cancelled
    sweep,      \* "none" | "running" | "returned" | "panicked": the goroutine
                \* that NewLimiters starts
    \* ---- router ----
    routes,     \* the patterns registered (for one method); a route's handler
                \* is identified by its pattern
    serving,    \* the build phase is over
    reqPath,    \* the path of the request matched, as its segments (<<>>: none yet)
    res,        \* the result of matching it
    \* ---- Server.Close, Server.Shutdown ----
    closed,     \* s.closed
    servers,    \* s.servers, as the set of the underlying servers it holds
    under,      \* per underlying server: "none" | "serving" | "closed" | "shutdown"
    cl,         \* per goroutine: the Close or Shutdown call it is in (0: none)
    clLog,      \* history: per call, what it was, how it returned and the
                \* underlying servers it closed or shut down
    obs,        \* history: what the calls of Closed() returned
    \* ---- groups ----
    heap,       \* the arrays behind the mw slices, by identity 1, 2, ...;
                \* a slot never written holds <<>>
    groups,     \* the Group objects, by identity: mw (a slice: array, len,
                \* cap) and the group SubGroup was called on (0: none)
    ghcG,       \* ghc.g of the route the request is for (0: no route yet)
    inherited,  \* history: per group, the list of its parent when SubGroup
                \* made it
    own,        \* history: per group, the middleware handed to it, in order
    \* ---- the pooled context ----
    ctxParams,  \* the Params of the context
    inPool,     \* the context is in the pool
    reqParams,  \* the Params the router matched for the request
    reqNo,      \* the requests so far
    left        \* history: the Params the context held when it was released

dispatchVars == <<nMW, nHC, pcServe, mwIdx, hIdx, done, nextMW, next, stack,
                  out, invoked, retval, doneSets>>

limiterVars == <<cfg, clock, ticks, lims, m, pc, key, cur, now, fresh, gets,
                 calls, got, made, tally, hist, lastPre>>

serverVars == <<route, cancelled, srvPanicHandler, srvNotFoundHandler, fault,
                phCalls, pcNF, nfCalls, nfOut>>

admissionVars == <<setHeaders, rl, reqs, lastReq>>

\* what the actions of the dispatch chain, and those of the limiter, leave alone
sweepVars == <<ctxCancelled, sweep>>

routerVars == <<routes, serving, reqPath, res>>

closeVars == <<closed, servers, under, cl, clLog, obs>>

groupVars == <<heap, groups, ghcG, inherited, own>>

lateVars == <<closeVars, groupVars>>

poolVars == <<ctxParams, inPool, reqParams, reqNo, left>>

restVars == <<lateVars, poolVars>>

otherVars == <<sweepVars, routerVars, lateVars>>

\* what Serve leaves alone apart from the pooled context, and what the rest
\* of the dispatch chain leaves alone
offDispatch == <<limiterVars, admissionVars, serverVars, otherVars>>

offUnit == <<offDispatch, poolVars>>

offLimiter == <<dispatchVars, serverVars, otherVars, poolVars>>

vars == <<dispatchVars, limiterVars, serverVars, admissionVars, otherVars,
          poolVars>>

----------------------------------------------------------------------------
(***************************************************************************)
(* The dispatch chain.                                                     *)
(*                                                                         *)
(* A unit (middleware or handler) is arbitrary code: while it runs it may  *)
(* write to the context itself, call ctx.Next(), and it returns either nil *)
(* (the absent-response sentinel) or a Response.                           *)
(***************************************************************************)
Phases == {"mw", "h"}

Units == (({"mw"} \X (0..MaxMW)) \cup ({"h"} \X (0..MaxHC)))

\* one frame of the worker's call stack:
\*   k = "Next": a call of ctx.Next(),  ph = the part it is about to run
\*   k = "loop": a call of the closure ctx.nextMW (ph = "mw") or ctx.next
\*   k = "unit": unit i of phase ph is running; it wrote w times itself and
\*               called ctx.Next() n times
Frame(k, ph, i, w, n) == [k |-> k, ph |-> ph, i |-> i, w |-> w, n |-> n]

Top == stack[Len(stack)]

Pop(s) == SubSeq(s, 1, Len(s) - 1)

Push(s, f) == Append(s, f)

\* ctx.done = true, as every write through the context does
SetDone ==
    /\ done' = TRUE
    /\ doneSets' = IF done THEN doneSets ELSE doneSets + 1

\* Response.WriteToCtx(ctx): the response of unit <<ph, i>> goes to the output
WriteToCtx(ph, i) ==
    /\ out' = Append(out, [by |-> "resp", ph |-> ph, i |-> i])
    /\ SetDone

\* (the loop conditions with a fault: the done flag is not consulted, the
\* last unit is left out)
MWLoopCond_NoDone == mwIdx < nMW

MWLoopCond_SkipLast == mwIdx + 1 < nMW /\ ~done

HLoopCond_NoDone == hIdx < nHC

\* (with a fault: the cursor is advanced only after the unit has returned,
\* so that it still points at the unit while the unit runs)
Advance_AfterCall(idx) == idx

\* mwIdx++ / hIdx++: the cursor is advanced before the unit is called
Advance(idx) == idx + 1

\* the loop conditions of the two closures
MWLoopCond == mwIdx < nMW /\ ~done

HLoopCond == hIdx < nHC /\ ~done

DispatchInit ==
    /\ nMW \in 0..MaxMW
    /\ nHC \in 0..MaxHC
    /\ pcServe = "idle"
    /\ mwIdx = 0
    /\ hIdx = 0
    /\ done = FALSE
    /\ nextMW = FALSE
    /\ next = FALSE
    /\ stack = <<>>
    /\ out = <<>>
    /\ invoked = <<>>
    /\ retval = [u \in Units |-> "none"]
    /\ doneSets = 0

\* getCtx(rw, req, p, s): a context, from the pool if it holds one, with
\* the Params of the request
GetCtx(p) ==
    /\ ctxParams' = p
    /\ inPool' = FALSE
    /\ UNCHANGED <<reqParams, reqNo, left>>

\* putCtx(ctx): the fields of the context are reset and it goes to the pool
\* (the actions that call it reset done, nextMW and next)
PutCtx ==
    /\ ctxParams' = <<>>
    /\ inPool' = TRUE
    /\ left' = ctxParams
    /\ UNCHANGED <<reqParams, reqNo>>

\* (with a fault: the cursor is kept with the pooled context and is not
\* reset)
CursorStart_Kept(prev) == prev

\* var mwIdx, hIdx int: the cursors are variables of the call of Serve and
\* start at zero, whatever an earlier call left
CursorStart(prev) == 0

\* Serve up to its call of ctx.Next(): getCtx, the two closures
Serve ==
    /\ pcServe = "idle"
    /\ UNCHANGED offDispatch
    /\ GetCtx(reqParams)
    /\ pcServe' = "running"
    /\ mwIdx' = CursorStart(mwIdx)
    /\ hIdx' = CursorStart(hIdx)
    /\ done' = FALSE
    /\ nextMW' = TRUE
    /\ next' = TRUE
    /\ stack' = <<Frame("Next", "mw", 0, 0, 0)>>
    /\ UNCHANGED <<nMW, nHC, out, invoked, retval, doneSets>>

\* ctx.Next(), first half: run ctx.nextMW if it is set
NextMiddleware ==
    /\ pcServe = "running"
    /\ UNCHANGED offUnit
    /\ stack # <<>>
    /\ Top.k = "Next" /\ Top.ph = "mw"
    /\ LET s1 == Push(Pop(stack), Frame("Next", "h", 0, 0, 0))
       IN  stack' = IF nextMW THEN Push(s1, Frame("loop", "mw", 0, 0, 0)) ELSE s1
    /\ UNCHANGED <<nMW, nHC, pcServe, mwIdx, hIdx, done, nextMW, next,
                   out, invoked, retval, doneSets>>

\* ctx.Next(), second half: run ctx.next if it is set, then return
NextHandler ==
    /\ pcServe = "running"
    /\ UNCHANGED offUnit
    /\ stack # <<>>
    /\ Top.k = "Next" /\ Top.ph = "h"
    /\ stack' = IF next THEN Push(Pop(stack), Frame("loop", "h", 0, 0, 0))
                        ELSE Pop(stack)
    /\ UNCHANGED <<nMW, nHC, pcServe, mwIdx, hIdx, done, nextMW, next,
                   out, invoked, retval, doneSets>>

\* one turn of the loop of ctx.nextMW: invoke the next middleware, or leave
\* the loop and clear ctx.nextMW
NextMWLoop ==
    /\ pcServe = "running"
    /\ UNCHANGED offUnit
    /\ stack # <<>>
    /\ Top.k = "loop" /\ Top.ph = "mw"
    /\ IF MWLoopCond
       THEN /\ mwIdx' = Advance(mwIdx)
            /\ stack' = Push(stack, Frame("unit", "mw", mwIdx, 0, 0))
            /\ invoked' = Append(invoked, <<"mw", mwIdx>>)
            /\ UNCHANGED nextMW
       ELSE /\ nextMW' = FALSE
            /\ stack' = Pop(stack)
            /\ UNCHANGED <<mwIdx, invoked>>
    /\ UNCHANGED <<nMW, nHC, pcServe, hIdx, done, next, out, retval, doneSets>>

\* one turn of the loop of ctx.next: invoke the next handler, or leave the
\* loop and clear ctx.next
NextLoop ==
    /\ pcServe = "running"
    /\ UNCHANGED offUnit
    /\ stack # <<>>
    /\ Top.k = "loop" /\ Top.ph = "h"
    /\ IF HLoopCond
       THEN /\ hIdx' = Advance(hIdx)
            /\ stack' = Push(stack, Frame("unit", "h", hIdx, 0, 0))
            /\ invoked' = Append(invoked, <<"h", hIdx>>)
            /\ UNCHANGED next
       ELSE /\ next' = FALSE
            /\ stack' = Pop(stack)
            /\ UNCHANGED <<hIdx, invoked>>
    /\ UNCHANGED <<nMW, nHC, pcServe, mwIdx, done, nextMW, out, retval, doneSets>>

\* the running unit finalizes output itself (ctx.Write, ctx.WriteHeader, ...)
UnitWrite ==
    /\ pcServe = "running"
    /\ UNCHANGED offUnit
    /\ stack # <<>>
    /\ Top.k = "unit"
    /\ Top.w < MaxUnitWrites
    /\ out' = Append(out, [by |-> "unit", ph |-> Top.ph, i |-> Top.i])
    /\ SetDone
    /\ stack' = Push(Pop(stack), [Top EXCEPT !.w = @ + 1])
    /\ UNCHANGED <<nMW, nHC, pcServe, mwIdx, hIdx, nextMW, next, invoked, retval>>

\* the running unit calls ctx.Next()
UnitCallNext ==
    /\ pcServe = "running"
    /\ UNCHANGED offUnit
    /\ stack # <<>>
    /\ Top.k = "unit"
    /\ Top.n < MaxNextCalls
    /\ stack' = Push(Push(Pop(stack), [Top EXCEPT !.n = @ + 1]),
                     Frame("Next", "mw", 0, 0, 0))
    /\ UNCHANGED <<nMW, nHC, pcServe, mwIdx, hIdx, done, nextMW, next,
                   out, invoked, retval, doneSets>>

\* what the loop that invoked the unit does with the value r the unit
\* returned: a non-nil r is written and ends the loop (break, then the
\* closure clears itself); nil lets the loop go on
LoopAfterUnit(ph, i, r) ==
    IF r = "resp"
    THEN /\ WriteToCtx(ph, i)
         /\ stack' = Pop(Pop(stack))
         /\ IF ph = "mw" THEN nextMW' = FALSE /\ UNCHANGED next
                         ELSE next' = FALSE /\ UNCHANGED nextMW
    ELSE /\ stack' = Pop(stack)
         /\ UNCHANGED <<out, done, doneSets, nextMW, next>>

\* the running unit returns r to the loop that invoked it
UnitReturn ==
    /\ pcServe = "running"
    /\ UNCHANGED offUnit
    /\ stack # <<>>
    /\ Top.k = "unit"
    /\ \E r \in {"nil", "resp"} :
          /\ retval' = [retval EXCEPT ![<<Top.ph, Top.i>>] = r]
          /\ LoopAfterUnit(Top.ph, Top.i, r)
    /\ UNCHANGED <<nMW, nHC, pcServe, mwIdx, hIdx, invoked>>

\* ctx.Next() has returned to Serve: Serve returns, the deferred putCtx
\* resets the context and hands it to the pool
ServeReturn ==
    /\ pcServe = "running"
    /\ UNCHANGED offDispatch
    /\ PutCtx
    /\ stack = <<>>
    /\ pcServe' = "returned"
    /\ done' = FALSE
    /\ nextMW' = FALSE
    /\ next' = FALSE
    /\ UNCHANGED <<nMW, nHC, mwIdx, hIdx, stack, out, invoked, retval, doneSets>>

DispatchNext ==
    \/ Serve
    \/ NextMiddleware
    \/ NextHandler
    \/ NextMWLoop
    \/ NextLoop
    \/ UnitWrite
    \/ UnitCallNext
    \/ UnitReturn
    \/ ServeReturn

----------------------------------------------------------------------------
(***************************************************************************)
(* The server around the dispatch chain: the request's cancellation        *)
(* signal, a unit that panics, and the request that no route matches.      *)
(***************************************************************************)
\* the server's handlers are not set, the request matches a route and
\* nothing happens to it from outside
ServerOff ==
    /\ route = "matched"
    /\ cancelled = FALSE
    /\ srvPanicHandler = FALSE
    /\ srvNotFoundHandler = FALSE
    /\ fault = "none"
    /\ phCalls = 0
    /\ pcNF = "idle"
    /\ nfCalls = 0
    /\ nfOut = <<>>

\* a server as NewWithOpts returns it and its user configures it:
\* PanicHandler is set with opts.CatchPanics or by the user, NotFoundHandler
\* by the user; the request matches a route
ServerInit ==
    /\ route = "matched"
    /\ cancelled = FALSE
    /\ srvPanicHandler \in BOOLEAN
    /\ srvNotFoundHandler = FALSE
    /\ fault = "none"
    /\ phCalls = 0
    /\ pcNF = "idle"
    /\ nfCalls = 0
    /\ nfOut = <<>>

\* a server and a request whose path may match no route
RoutingInit ==
    /\ route \in {"matched", "none"}
    /\ cancelled = FALSE
    /\ srvPanicHandler = FALSE
    /\ srvNotFoundHandler \in BOOLEAN
    /\ fault = "none"
    /\ phCalls = 0
    /\ pcNF = "idle"
    /\ nfCalls = 0
    /\ nfOut = <<>>

\* the cancellation/deadline signal of the request (req.Context().Done())
\* fires; Serve and the two closures never read it
Cancel ==
    /\ pcServe \in {"idle", "running"}
    /\ ~cancelled
    /\ cancelled' = TRUE
    /\ UNCHANGED <<route, srvPanicHandler, srvNotFoundHandler, fault, phCalls,
                   pcNF, nfCalls, nfOut>>
    /\ UNCHANGED <<dispatchVars, limiterVars, admissionVars, otherVars>>
    /\ UNCHANGED poolVars

\* the running unit panics.  Neither the closures nor Serve recover: the
\* stack unwinds through them (the closures do not get to clear
\* themselves), Serve's deferred putCtx resets the context, and the panic
\* goes on to the caller of Serve.  srv.PanicHandler is not consulted.
UnitPanic ==
    /\ pcServe = "running"
    /\ stack # <<>>
    /\ Top.k = "unit"
    /\ fault' = <<Top.ph, Top.i>>
    /\ stack' = <<>>
    /\ pcServe' = "panicked"
    /\ done' = FALSE
    /\ nextMW' = FALSE
    /\ next' = FALSE
    /\ UNCHANGED <<nMW, nHC, mwIdx, hIdx, out, invoked, retval, doneSets>>
    /\ UNCHANGED <<route, cancelled, srvPanicHandler, srvNotFoundHandler,
                   phCalls, pcNF, nfCalls, nfOut>>
    /\ UNCHANGED <<limiterVars, admissionVars, otherVars>>
    /\ PutCtx

\* (with a fault: the injected handler is never looked at)
NotFoundSet_Never == FALSE

\* h := srv.NotFoundHandler; h != nil
NotFoundSet == srvNotFoundHandler

\* the router found no route and calls srv.r.NotFoundHandler: the injected
\* handler is called with a context of its own, or else RespNotFound is
\* written
NotFoundCall ==
    /\ route = "none"
    /\ pcNF = "idle"
    /\ IF NotFoundSet
       THEN /\ pcNF' = "called"
            /\ nfCalls' = nfCalls + 1
            /\ GetCtx(reqParams)
            /\ UNCHANGED nfOut
       ELSE /\ pcNF' = "returned"
            /\ nfOut' = Append(nfOut, "RespNotFound")
            /\ UNCHANGED <<nfCalls, poolVars>>
    /\ UNCHANGED <<route, cancelled, srvPanicHandler, srvNotFoundHandler,
                   fault, phCalls>>
    /\ UNCHANGED <<dispatchVars, limiterVars, admissionVars, otherVars>>

\* the injected handler writes to its context
NotFoundWrite ==
    /\ pcNF = "called"
    /\ Len(nfOut) < MaxUnitWrites
    /\ nfOut' = Append(nfOut, "handler")
    /\ UNCHANGED <<route, cancelled, srvPanicHandler, srvNotFoundHandler,
                   fault, phCalls, pcNF, nfCalls>>
    /\ UNCHANGED <<dispatchVars, limiterVars, admissionVars, otherVars>>
    /\ UNCHANGED poolVars

\* the injected handler returns; putCtx; return
NotFoundReturn ==
    /\ pcNF = "called"
    /\ pcNF' = "returned"
    /\ UNCHANGED <<route, cancelled, srvPanicHandler, srvNotFoundHandler,
                   fault, phCalls, nfCalls, nfOut>>
    /\ UNCHANGED <<dispatchVars, limiterVars, admissionVars, otherVars>>
    /\ PutCtx

\* a request that matches a route, on a server where it may be cancelled
\* and its units may panic
ServerNext ==
    \/ DispatchNext
    \/ Cancel
    \/ UnitPanic

\* a request that the router resolves to a route's Serve or to the
\* NotFoundHandler
RoutingNext ==
    \/ route = "matched" /\ DispatchNext
    \/ NotFoundCall
    \/ NotFoundWrite
    \/ NotFoundReturn

----------------------------------------------------------------------------
(***************************************************************************)
(* The rate limiter.                                                       *)
(*                                                                         *)
(* Times are whole seconds (Allowed reads time.Now().Unix()), and so are   *)
(* the retry delays: every delay Allowed returns is a whole multiple of    *)
(* time.Second.                                                            *)
(***************************************************************************)
\* the goroutines that call Get and Allowed concurrently
Callers == {1, 2}

Keys == {"a", "b"}

\* by how much the clock advances in one step
TickSteps == {1, 59, 3599}

\* NewLimiter at time ts
NewLimiter(c, ts) ==
    [maxPerSecond |-> c.sec, maxPerMinute |-> c.min, maxPerHour |-> c.hour,
     reqPerSecond |-> 0, reqPerMinute |-> 0, reqPerHour |-> 0,
     lastSec |-> ts, lastMin |-> ts, lastHour |-> ts,
     totalAllowed |-> 0, totalBlocked |-> 0]

\* what one window check hands on: the limiter, the retry delay, and the
\* window that rejected the call ("none": not rejected)
Outcome(l, d, win) == [lim |-> l, d |-> d, win |-> win]

\* (with a fault: the comparison with the maximum is off by one)
Exceeded_OffByOne(req, max) == req > max + 1

\* a counter exceeds its maximum
Exceeded(req, max) == req > max

\* (with a fault: the second window restarts one second late)
SecondExpired_Late(l, t) == t - l.lastSec > 1

\* the windows have run out at time t
HourExpired(l, t) == t - l.lastHour > HourAge

MinuteExpired(l, t) == t - l.lastMin > MinuteAge

SecondExpired(l, t) == t - l.lastSec > SecondAge

\* the hour window of Allowed
CheckHour(l, t) ==
    LET l1 == IF HourExpired(l, t)
              THEN [l EXCEPT !.reqPerHour = 0, !.lastHour = t] ELSE l
        l2 == [l1 EXCEPT !.reqPerHour = @ + 1]
    IN  IF Exceeded(l2.reqPerHour, l2.maxPerHour)
        THEN Outcome(l2, SecondsPerHour - SecondsPerSecond * (t - l2.lastHour), "hour")
        ELSE Outcome(l2, 0, "none")

\* the minute window of Allowed
CheckMinute(l, t) ==
    LET l1 == IF MinuteExpired(l, t)
              THEN [l EXCEPT !.reqPerMinute = 0, !.lastMin = t] ELSE l
        l2 == [l1 EXCEPT !.reqPerMinute = @ + 1]
    IN  IF Exceeded(l2.reqPerMinute, l2.maxPerMinute)
        THEN Outcome(l2, SecondsPerMinute - SecondsPerSecond * (t - l2.lastMin), "minute")
        ELSE Outcome(l2, 0, "none")

\* the second window of Allowed
CheckSecond(l, t) ==
    LET l1 == IF SecondExpired(l, t)
              THEN [l EXCEPT !.lastSec = t, !.reqPerSecond = 0] ELSE l
        l2 == [l1 EXCEPT !.reqPerSecond = @ + 1]
    IN  IF Exceeded(l2.reqPerSecond, l2.maxPerSecond)
        THEN Outcome(l2, SecondsPerSecond - SecondsPerSecond * (t - l2.lastSec), "second")
        ELSE Outcome(l2, 0, "none")

\* (with a fault: the windows are checked finest first)
AllowedBody_FinestFirst(l, t) ==
    LET s == CheckSecond(l, t)
    IN  IF s.win # "none" THEN s
        ELSE LET mi == CheckMinute(s.lim, t)
             IN  IF mi.win # "none" THEN mi ELSE CheckHour(mi.lim, t)

\* (with a fault: every window is restarted and counted before any of them
\* is tested)
AllowedBody_CountAll(l, t) ==
    LET h == CheckHour(l, t)
        mi == CheckMinute(h.lim, t)
        s == CheckSecond(mi.lim, t)
    IN  IF h.win # "none" THEN Outcome(s.lim, h.d, "hour")
        ELSE IF mi.win # "none" THEN Outcome(s.lim, mi.d, "minute") ELSE s

\* the body of Allowed between Lock and return: hour, then minute, then
\* second, returning at the first window that is exceeded
AllowedBody(l, t) ==
    LET h == CheckHour(l, t)
    IN  IF h.win # "none" THEN h
        ELSE LET mi == CheckMinute(h.lim, t)
             IN  IF mi.win # "none" THEN mi ELSE CheckSecond(mi.lim, t)

\* (with a fault: a rejected call is not counted)
CountCall_AllowedOnly(l, win) ==
    IF win = "none" THEN [l EXCEPT !.totalAllowed = @ + 1] ELSE l

\* the deferred function of Allowed: count the call by its error
CountCall(l, win) ==
    IF win = "none" THEN [l EXCEPT !.totalAllowed = @ + 1]
                    ELSE [l EXCEPT !.totalBlocked = @ + 1]

\* (with a fault: the entry is not looked up again under the write lock)
HasEntry_NoRecheck(k) == FALSE

\* the registry has an entry for key k
HasEntry(k) == m[k] # 0

\* the maxima a limiter is made with: maxPerSecond, maxPerMinute, maxPerHour
SecondRates == {1, 2}

MinuteRates == {1, 2, 3}

HourRates == {1, 2, 3}

Rates == [sec : SecondRates, min : MinuteRates, hour : HourRates]

\* the counts kept of a Limiter made at time ts:
\*   calls, retOk     its completed Allowed calls, and those that returned no error
\*   okSec/Min/Hour   the calls that returned no error since the second,
\*                    minute, hour window last restarted
\*   secT, secN       the latest second a call was made in, and the calls made in it
\*   inOrder          no call so far read the clock before an earlier call did
NewTally(ts) ==
    [calls |-> 0, retOk |-> 0, okSec |-> 0, okMin |-> 0, okHour |-> 0,
     secT |-> ts, secN |-> 0, inOrder |-> TRUE]

\* the counts after a call that read the clock at t, found the Limiter as l
\* and left it as l2, and was rejected by window win ("none": allowed)
Count(c, l, l2, t, win) ==
    LET one == IF win = "none" THEN 1 ELSE 0
    IN  [calls |-> c.calls + 1,
         retOk |-> c.retOk + one,
         okSec |-> IF l2.lastSec # l.lastSec THEN one ELSE c.okSec + one,
         okMin |-> IF l2.lastMin # l.lastMin THEN one ELSE c.okMin + one,
         okHour |-> IF l2.lastHour # l.lastHour THEN one ELSE c.okHour + one,
         secT |-> IF t > c.secT THEN t ELSE c.secT,
         secN |-> IF t > c.secT THEN 1 ELSE c.secN + 1,
         inOrder |-> c.inOrder /\ t >= c.secT]

\* the last two calls, after call e
Keep2(h, e) == IF h = <<>> THEN <<e>> ELSE <<h[Len(h)], e>>

\* the part of the state every limiter specification starts from
LimiterBase ==
    /\ cfg \in Rates
    /\ clock = 0
    /\ ticks = 0
    /\ m = [k \in Keys |-> 0]
    /\ pc = [g \in Callers |-> "idle"]
    /\ key = [g \in Callers |-> "a"]
    /\ now = [g \in Callers |-> 0]
    /\ fresh = [g \in Callers |-> TRUE]
    /\ gets = 0
    /\ calls = 0
    /\ got = {}
    /\ made = [k \in Keys |-> {}]
    /\ hist = <<>>
    /\ lastPre = NewLimiter(cfg, 0)

\* one Limiter, made by NewLimiter, that every goroutine holds
LimiterInit ==
    /\ LimiterBase
    /\ lims = <<NewLimiter(cfg, 0)>>
    /\ tally = <<NewTally(0)>>
    /\ cur = [g \in Callers |-> 1]

\* an empty registry (a Limiters value); no goroutine holds a Limiter
RegistryInit ==
    /\ LimiterBase
    /\ cfg = [sec |-> 1, min |-> 2, hour |-> 2]
    /\ lims = <<>>
    /\ tally = <<>>
    /\ cur = [g \in Callers |-> 0]

\* the limiter is not part of the behaviour
LimiterOff ==
    /\ cfg = [sec |-> 1, min |-> 1, hour |-> 1]
    /\ clock = 0
    /\ ticks = 0
    /\ m = [k \in Keys |-> 0]
    /\ pc = [g \in Callers |-> "idle"]
    /\ key = [g \in Callers |-> "a"]
    /\ now = [g \in Callers |-> 0]
    /\ fresh = [g \in Callers |-> TRUE]
    /\ gets = 0
    /\ calls = 0
    /\ got = {}
    /\ made = [k \in Keys |-> {}]
    /\ hist = <<>>
    /\ lastPre = NewLimiter(cfg, 0)
    /\ lims = <<>>
    /\ tally = <<>>
    /\ cur = [g \in Callers |-> 0]

\* the dispatch chain is not part of the behaviour
DispatchOff ==
    /\ nMW = 0
    /\ nHC = 0
    /\ pcServe = "idle"
    /\ mwIdx = 0
    /\ hIdx = 0
    /\ done = FALSE
    /\ nextMW = FALSE
    /\ next = FALSE
    /\ stack = <<>>
    /\ out = <<>>
    /\ invoked = <<>>
    /\ retval = [u \in Units |-> "none"]
    /\ doneSets = 0

\* time passes
Tick ==
    /\ ticks < MaxTicks
    /\ \E d \in TickSteps : clock' = clock + d
    /\ ticks' = ticks + 1
    /\ UNCHANGED <<cfg, lims, m, pc, key, cur, now, fresh, gets, calls, got, made,
                   tally, hist, lastPre>>
    /\ UNCHANGED offLimiter

\* Allowed up to l.mux.Lock(): read the clock
AllowedBegin(g) ==
    /\ pc[g] = "idle"
    /\ cur[g] # 0
    /\ calls < MaxCalls
    /\ calls' = calls + 1
    /\ now' = [now EXCEPT ![g] = clock]
    /\ fresh' = [fresh EXCEPT ![g] = TRUE]
    /\ pc' = [pc EXCEPT ![g] = "lock"]
    /\ UNCHANGED <<cfg, clock, ticks, lims, m, key, cur, gets, got, made, tally,
                   hist, lastPre>>
    /\ UNCHANGED offLimiter

\* (with a fault: one lock for all the limiters of the program)
MuxFree_Global(id) == \A h \in Callers : pc[h] # "held"

\* l.mux of Limiter id is free: no goroutine is between the Lock and the
\* deferred Unlock of an Allowed call on that Limiter
MuxFree(id) == \A h \in Callers : ~(pc[h] = "held" /\ cur[h] = id)

\* l.mux.Lock() of Allowed, as a step of its own
AllowedLock(g) ==
    /\ pc[g] = "lock"
    /\ MuxFree(cur[g])
    /\ pc' = [pc EXCEPT ![g] = "held"]
    /\ UNCHANGED <<cfg, clock, ticks, lims, m, key, cur, now, fresh, gets, calls,
                   got, made, tally, hist, lastPre>>
    /\ UNCHANGED offLimiter

\* Allowed from l.mux.Lock() to its return, the deferred count included;
\* the mutex makes it one step (where the Lock is a step of its own, this
\* is Allowed from behind the Lock on)
AllowedLocked(g) ==
    /\ pc[g] \in {"lock", "held"}
    /\ LET l == lims[cur[g]]
           r == AllowedBody(l, now[g])
           l2 == CountCall(r.lim, r.win)
       IN  /\ lims' = [lims EXCEPT ![cur[g]] = l2]
           /\ tally' = [tally EXCEPT ![cur[g]] = Count(@, l, l2, now[g], r.win)]
           /\ hist' = Keep2(hist, [l |-> cur[g], now |-> now[g],
                                   fresh |-> fresh[g],
                                   ok |-> r.win = "none", win |-> r.win,
                                   d |-> r.d])
           /\ lastPre' = l
    /\ pc' = [pc EXCEPT ![g] = "idle"]
    /\ fresh' = [h \in Callers |-> IF h = g THEN TRUE ELSE pc[h] \notin {"lock", "held"}]
    /\ now' = [now EXCEPT ![g] = 0]
    /\ UNCHANGED <<cfg, clock, ticks, m, key, cur, gets, calls, got, made>>
    /\ UNCHANGED offLimiter

\* Limiters.Get(k), the read-locked lookup of MustGet: an entry that is
\* there is returned, otherwise the goroutine goes on to the write lock
GetLookup(g, k) ==
    /\ pc[g] = "idle"
    /\ gets < MaxGets
    /\ gets' = gets + 1
    /\ key' = [key EXCEPT ![g] = k]
    /\ IF m[k] # 0
       THEN /\ cur' = [cur EXCEPT ![g] = m[k]]
            /\ got' = got \cup {<<k, m[k], "read">>}
            /\ UNCHANGED pc
       ELSE /\ pc' = [pc EXCEPT ![g] = "getSlow"]
            /\ UNCHANGED <<cur, got>>
    /\ UNCHANGED <<cfg, clock, ticks, lims, m, now, fresh, calls, made, tally,
                   hist, lastPre>>
    /\ UNCHANGED offLimiter

\* Limiters.Get(k), MustGet under the write lock: look the key up again, and
\* only if it is still missing call NewLimiter and store the result
GetCreate(g) ==
    /\ pc[g] = "getSlow"
    /\ LET k == key[g]
       IN  IF HasEntry(k)
           THEN /\ cur' = [cur EXCEPT ![g] = m[k]]
                /\ got' = got \cup {<<k, m[k], "reread">>}
                /\ UNCHANGED <<lims, m, made, tally>>
           ELSE LET id == Len(lims) + 1
                IN  /\ lims' = Append(lims, NewLimiter(cfg, clock))
                    /\ tally' = Append(tally, NewTally(clock))
                    /\ m' = [m EXCEPT ![k] = id]
                    /\ made' = [made EXCEPT ![k] = @ \cup {id}]
                    /\ cur' = [cur EXCEPT ![g] = id]
                    /\ got' = got \cup {<<k, id, "made">>}
    /\ pc' = [pc EXCEPT ![g] = "idle"]
    /\ UNCHANGED <<cfg, clock, ticks, key, now, fresh, gets, calls, hist, lastPre>>
    /\ UNCHANGED offLimiter

LimiterNext ==
    \/ Tick /\ UNCHANGED admissionVars
    \/ \E g \in Callers : AllowedBegin(g) /\ UNCHANGED admissionVars
    \/ \E g \in Callers : AllowedLocked(g) /\ UNCHANGED admissionVars

RegistryNext ==
    \/ Tick /\ ticks < MaxRegTicks /\ UNCHANGED admissionVars
    \/ \E g \in Callers, k \in Keys : GetLookup(g, k) /\ UNCHANGED admissionVars
    \/ \E g \in Callers : GetCreate(g) /\ UNCHANGED admissionVars
    \/ \E g \in Callers : AllowedBegin(g) /\ calls < MaxRegCalls
                                         /\ UNCHANGED admissionVars
    \/ \E g \in Callers : AllowedLocked(g) /\ UNCHANGED admissionVars

\* goroutines that call Get and Allowed on a registry, with l.mux.Lock() a
\* step of its own
KeysNext ==
    \/ Tick /\ ticks < MaxRegTicks /\ UNCHANGED admissionVars
    \/ \E g \in Callers, k \in Keys :
          GetLookup(g, k) /\ gets < MaxKeyCalls /\ UNCHANGED admissionVars
    \/ \E g \in Callers : GetCreate(g) /\ UNCHANGED admissionVars
    \/ \E g \in Callers : AllowedBegin(g) /\ calls < MaxKeyCalls
                                         /\ UNCHANGED admissionVars
    \/ \E g \in Callers : AllowedLock(g) /\ UNCHANGED admissionVars
    \/ \E g \in Callers : pc[g] = "held" /\ AllowedLocked(g)
                                          /\ UNCHANGED admissionVars

----------------------------------------------------------------------------
(***************************************************************************)
(* The admission middleware: the Handler that RateLimiter returns, run by  *)
(* the goroutines of concurrent requests on one registry.                  *)
(***************************************************************************)
\* durations are counted in milliseconds where they are converted (a
\* time.Duration counts nanoseconds)
SubSecond == 1000

\* http.StatusTooManyRequests
StatusTooManyRequests == 429

\* time.Second * time.Duration(n)
Duration(n) == n * SubSecond

\* int(d.Seconds() + 1): the conversion to int truncates
RetrySeconds(d) == (d + SubSecond) \div SubSecond

\* max(0, v)
Max0(v) == IF v > 0 THEN v ELSE 0

\* Limiter.RequestsLeft, in the order of the header: second, minute, hour
RequestsLeft(l) ==
    <<Max0(l.maxPerSecond - l.reqPerSecond),
      Max0(l.maxPerMinute - l.reqPerMinute),
      Max0(l.maxPerHour - l.reqPerHour)>>

\* the headers the middleware sets (<<>>: the header is not set), for a
\* limiter found as l after Allowed returned d and an error or none
RLHeaders(l, d, err) ==
    [limit |-> IF setHeaders THEN <<cfg.sec, cfg.min, cfg.hour>> ELSE <<>>,
     remaining |-> IF setHeaders THEN RequestsLeft(l) ELSE <<>>,
     reset |-> IF setHeaders /\ err THEN <<RetrySeconds(d)>> ELSE <<>>,
     retryAfter |-> IF setHeaders /\ err THEN <<RetrySeconds(d)>> ELSE <<>>]

\* (with a fault: the request is let through whatever Allowed returned)
RLResponse_AlwaysNil(err) == 0

\* what the middleware returns: nil (0 here) if Allowed returned no error,
\* else NewJSONErrorResponse(http.StatusTooManyRequests, err), by its status
RLResponse(err) == IF err THEN StatusTooManyRequests ELSE 0

\* no request
IdleReq == [stage |-> "idle", key |-> "a", n |-> 0, d |-> 0, err |-> FALSE]

NoReq == [key |-> "", lim |-> 0, n |-> 0, d |-> 0, err |-> FALSE, resp |-> 0,
          hdr |-> [limit |-> <<>>, remaining |-> <<>>, reset |-> <<>>,
                   retryAfter |-> <<>>]]

\* the middleware is not part of the behaviour
AdmissionOff ==
    /\ setHeaders = FALSE
    /\ rl = [g \in Callers |-> IdleReq]
    /\ reqs = 0
    /\ lastReq = NoReq

\* RateLimiter(ctx, limitKey, maxPerSecond, maxPerMinute, maxPerHour,
\* setHeaders) has returned the middleware; no request has reached it
AdmissionInit ==
    /\ setHeaders \in BOOLEAN
    /\ rl = [g \in Callers |-> IdleReq]
    /\ reqs = 0
    /\ lastReq = NoReq

\* the middleware is invoked for a request whose caller key is k:
\* key = limitKey(ctx), then ls.Get(key) up to its read-locked lookup
RLGet(g, k) ==
    /\ rl[g].stage = "idle"
    /\ reqs < MaxReqs
    /\ GetLookup(g, k)
    /\ reqs' = reqs + 1
    /\ rl' = [rl EXCEPT ![g] = [IdleReq EXCEPT !.stage = "get", !.key = k]]
    /\ UNCHANGED <<setHeaders, lastReq>>

\* ls.Get(key), under the write lock
RLGetCreate(g) ==
    /\ rl[g].stage = "get"
    /\ GetCreate(g)
    /\ UNCHANGED admissionVars

\* l.Allowed() up to its Lock
RLAllowedBegin(g) ==
    /\ rl[g].stage = "get"
    /\ pc[g] = "idle"
    /\ AllowedBegin(g)
    /\ rl' = [rl EXCEPT ![g].stage = "allowed", ![g].n = @ + 1]
    /\ UNCHANGED <<setHeaders, reqs, lastReq>>

\* l.Allowed() from its Lock on: d, err
RLAllowedLocked(g) ==
    /\ rl[g].stage = "allowed"
    /\ AllowedLocked(g)
    /\ LET r == AllowedBody(lims[cur[g]], now[g])
       IN  rl' = [rl EXCEPT ![g].stage = "left", ![g].d = Duration(r.d),
                            ![g].err = r.win # "none"]
    /\ UNCHANGED <<setHeaders, reqs, lastReq>>

\* l.RequestsLeft(), the headers, and the return of the middleware
RLReturn(g) ==
    /\ rl[g].stage = "left"
    /\ lastReq' = [key |-> rl[g].key, lim |-> cur[g], n |-> rl[g].n,
                   d |-> rl[g].d, err |-> rl[g].err,
                   resp |-> RLResponse(rl[g].err),
                   hdr |-> RLHeaders(lims[cur[g]], rl[g].d, rl[g].err)]
    /\ rl' = [rl EXCEPT ![g] = IdleReq]
    /\ UNCHANGED <<setHeaders, reqs>>
    /\ UNCHANGED <<limiterVars, dispatchVars, serverVars, otherVars, poolVars>>

AdmissionNext ==
    \/ Tick /\ ticks < MaxRegTicks /\ UNCHANGED admissionVars
    \/ \E g \in Callers, k \in Keys : RLGet(g, k)
    \/ \E g \in Callers : RLGetCreate(g)
    \/ \E g \in Callers : RLAllowedBegin(g)
    \/ \E g \in Callers : RLAllowedLocked(g)
    \/ \E g \in Callers : RLReturn(g)

----------------------------------------------------------------------------
(***************************************************************************)
(* The background sweep: NewLimiters starts the goroutine ls.clean().      *)
(***************************************************************************)
\* checkDuration: time.Hour + time.Minute * 30
CheckDuration == 5400

\* ls.ctx: NewLimiters fills in the three maxima and leaves the field at
\* its zero value, whatever context it was passed
LsCtx == "nil"

\* Limiter.LastAction, as seconds
LastAction(l) ==
    LET a == IF l.lastSec > l.lastMin THEN l.lastSec ELSE l.lastMin
    IN  IF l.lastHour > a THEN l.lastHour ELSE a

\* no registry was made by NewLimiters
SweepOff ==
    /\ ctxCancelled = FALSE
    /\ sweep = "none"

\* NewLimiters(ctx, ...) has returned: the goroutine is started, the
\* context is not cancelled yet
SweepInit ==
    /\ ctxCancelled = FALSE
    /\ sweep = "running"

\* a panic that no goroutine recovers ends the program
Alive == sweep # "panicked"

\* the owner of the registry cancels the context it passed to NewLimiters
CancelCtx ==
    /\ Alive
    /\ ~ctxCancelled
    /\ ctxCancelled' = TRUE
    /\ UNCHANGED sweep
    /\ UNCHANGED <<dispatchVars, limiterVars, serverVars, admissionVars,
                   routerVars, restVars>>

\* one turn of the loop of clean: the select evaluates ls.ctx.Done(), which
\* panics on the nil interface; with a context it would return once the
\* context is cancelled, or at a tick of the ticker delete every entry
\* whose LastAction is more than checkDuration before the tick
Clean ==
    /\ sweep = "running"
    /\ IF LsCtx = "nil"
       THEN /\ sweep' = "panicked"
            /\ UNCHANGED m
       ELSE \/ /\ ctxCancelled
               /\ sweep' = "returned"
               /\ UNCHANGED m
            \/ /\ m' = [k \in Keys |->
                           IF m[k] # 0 /\ clock - LastAction(lims[m[k]]) > CheckDuration
                           THEN 0 ELSE m[k]]
               /\ UNCHANGED sweep
    /\ UNCHANGED ctxCancelled
    /\ UNCHANGED <<cfg, clock, ticks, lims, pc, key, cur, now, fresh, gets, calls,
                   got, made, tally, hist, lastPre>>
    /\ UNCHANGED <<dispatchVars, serverVars, admissionVars, routerVars, restVars>>

\* a registry made by NewLimiters, its sweep, and goroutines that call Get
\* and Allowed while the program runs
SweepNext ==
    \/ Alive /\ Tick /\ UNCHANGED admissionVars
    \/ \E g \in Callers, k \in Keys :
          Alive /\ GetLookup(g, k) /\ gets < MaxSweepCalls
                /\ UNCHANGED admissionVars
    \/ \E g \in Callers : Alive /\ GetCreate(g) /\ UNCHANGED admissionVars
    \/ \E g \in Callers : Alive /\ AllowedBegin(g) /\ calls < MaxSweepCalls
                                 /\ UNCHANGED admissionVars
    \/ \E g \in Callers : Alive /\ AllowedLocked(g) /\ UNCHANGED admissionVars
    \/ CancelCtx
    \/ Clean

----------------------------------------------------------------------------
(***************************************************************************)
(* The trie router.  A pattern and a path are sequences of segments; a     *)
(* segment of a pattern is static (<<"s", text>>), named (<<"n", name>>)   *)
(* or a wildcard (<<"w", name>>), which ends its pattern.  A node of the   *)
(* trie is the prefix of the patterns that leads to it, so that the trie   *)
(* of a set of patterns is the set of their prefixes.                      *)
(***************************************************************************)
\* the pattern and the path of TestBugGithub3
TestPattern == << <<"s", "api">>, <<"s", "files">>, <<"n", "bkt">>,
                 <<"n", "type">>, <<"n", "filename">> >>

TestPath == <<"api", "files", "Personal", "data", "hi.txt">>

\* the patterns that are registered
Patterns ==
    { TestPattern,
      << <<"s", "users">>, <<"s", "list">> >>,
      << <<"s", "users">>, <<"n", "id">> >>,
      << <<"s", "users">>, <<"w", "fp">> >>,
      << <<"s", "users">>, <<"n", "id">>, <<"n", "op">> >>,
      << <<"s", "users">>, <<"n", "name">>, <<"s", "list">> >>,
      << <<"s", "users">>, <<"s", "list">>, <<"n", "op">> >>,
      << <<"n", "grp">>, <<"n", "id">> >>,
      << <<"n", "grp">>, <<"s", "list">> >>,
      << <<"w", "fp">> >> }

\* the segments of the paths that are requested
Segments == {"users", "list", "x"}

Paths ==
    {TestPath} \cup UNION {[1..n -> Segments] : n \in 1..MaxPathLen}

Prefix(p, k) == SubSeq(p, 1, k)

\* the nodes of the trie of the set R of patterns
Nodes(R) == UNION {{Prefix(p, k) : k \in 0..Len(p)} : p \in R}

\* the children of a node, by kind
Children(R, node, kind) ==
    {c \in Nodes(R) : /\ Len(c) = Len(node) + 1
                      /\ Prefix(c, Len(node)) = node
                      /\ c[Len(c)][1] = kind}

\* registering pattern p next to those of R is ambiguous: a node would get
\* two named children, or two wildcard children, of different names
Conflict(R, p) ==
    \E k \in 1..Len(p) :
        /\ p[k][1] \in {"n", "w"}
        /\ \E c \in Children(R, Prefix(p, k - 1), p[k][1]) : c[k][2] # p[k][2]

\* the remaining segments of a path, joined by "/"
RECURSIVE Join(_)
Join(segs) ==
    IF Len(segs) = 1 THEN segs[1] ELSE segs[1] \o "/" \o Join(Tail(segs))

\* (with a fault: a capture is put in front of the earlier ones)
Capture_InFront(ps, name, value) == <<[name |-> name, value |-> value]>> \o ps

\* a segment is captured under a name
Capture(ps, name, value) == Append(ps, [name |-> name, value |-> value])

\* (with a fault: the named child is tried before the static children)
ChildKind_NamedFirst(R, node, seg) ==
    IF Children(R, node, "n") # {} THEN "n"
    ELSE IF \E c \in Children(R, node, "s") : c[Len(c)][2] = seg THEN "s"
    ELSE IF Children(R, node, "w") # {} THEN "w"
    ELSE "none"

\* the kind of the child that the walk takes from a node for the segment
\* seg: the static child of that text, else the named child, else the
\* wildcard child
ChildKind(R, node, seg) ==
    IF \E c \in Children(R, node, "s") : c[Len(c)][2] = seg THEN "s"
    ELSE IF Children(R, node, "n") # {} THEN "n"
    ELSE IF Children(R, node, "w") # {} THEN "w"
    ELSE "none"

NoMatch == [found |-> FALSE, h |-> <<>>, params |-> <<>>, trail |-> <<>>]

\* the walk down the trie from a node, for the segments of path q from the
\* i-th on; ps are the captures and trail the nodes walked through so far
RECURSIVE Walk(_, _, _, _, _, _)
Walk(R, q, i, node, ps, trail) ==
    IF i > Len(q)
    THEN IF node \in R
         THEN [found |-> TRUE, h |-> node, params |-> ps, trail |-> trail]
         ELSE [NoMatch EXCEPT !.trail = trail]
    ELSE LET kind == ChildKind(R, node, q[i])
             c == CHOOSE c \in Children(R, node, kind) :
                      kind = "s" => c[Len(c)][2] = q[i]
         IN  CASE kind = "none" -> [NoMatch EXCEPT !.trail = trail]
               [] kind = "s" -> Walk(R, q, i + 1, c, ps, Append(trail, c))
               [] kind = "n" -> Walk(R, q, i + 1, c, Capture(ps, c[i][2], q[i]),
                                     Append(trail, c))
               [] kind = "w" ->
                      [found |-> TRUE, h |-> c,
                       params |-> Capture(ps, c[i][2], Join(SubSeq(q, i, Len(q)))),
                       trail |-> Append(trail, c)]

\* Match(method, path)
Match(R, q) == Walk(R, q, 1, <<>>, <<>>, <<>>)

\* Params.Get(name): the value of the first capture of that name
Get(ps, name) ==
    IF \E k \in 1..Len(ps) : ps[k].name = name
    THEN ps[CHOOSE k \in 1..Len(ps) :
                /\ ps[k].name = name
                /\ \A j \in 1..(k - 1) : ps[j].name # name].value
    ELSE ""

\* the router as router.New returns it
RouterInit ==
    /\ routes = {}
    /\ serving = FALSE
    /\ reqPath = <<>>
    /\ res = NoMatch

\* Group.AddRoute in the build phase; a pattern that is ambiguous with a
\* registered one is refused
AddRoute(p) ==
    /\ ~serving
    /\ Cardinality(routes) < MaxRoutes
    /\ p \notin routes
    /\ ~Conflict(routes, p)
    /\ routes' = routes \cup {p}
    /\ UNCHANGED <<serving, reqPath, res>>
    /\ UNCHANGED <<dispatchVars, limiterVars, serverVars, admissionVars, sweepVars,
                   restVars>>

\* one of the run functions is called: the build phase is over
Run ==
    /\ ~serving
    /\ serving' = TRUE
    /\ UNCHANGED <<routes, reqPath, res>>
    /\ UNCHANGED <<dispatchVars, limiterVars, serverVars, admissionVars, sweepVars,
                   restVars>>

\* the request, for path q, is matched
RouterMatch(q) ==
    /\ serving
    /\ reqPath = <<>>
    /\ reqPath' = q
    /\ res' = Match(routes, q)
    /\ UNCHANGED <<routes, serving>>
    /\ UNCHANGED <<dispatchVars, limiterVars, serverVars, admissionVars, sweepVars,
                   restVars>>

RouterNext ==
    \/ \E p \in Patterns : AddRoute(p)
    \/ Run
    \/ \E q \in Paths : RouterMatch(q)

----------------------------------------------------------------------------
(***************************************************************************)
(* Closing the server: Close, Shutdown and Closed, called by concurrent    *)
(* goroutines while the run functions add underlying servers.              *)
(***************************************************************************)
ServerIds == 1..MaxServers

\* a call of Close or Shutdown that has not returned yet
NewCall(op) == [op |-> op, ret |-> "pending", touched |-> {}]

\* (with a fault: the flag is stored without being compared)
CompareAndSwap_Blind(v, old) == TRUE

\* atomic.CompareAndSwapInt32(&s.closed, old, new) succeeds
CompareAndSwap(v, old) == v = old

\* nothing is closed and nothing runs
CloseOff ==
    /\ closed = 0
    /\ servers = {}
    /\ under = [i \in ServerIds |-> "none"]
    /\ cl = [g \in Callers |-> 0]
    /\ clLog = <<>>
    /\ obs = <<>>

\* a run function (Run, RunTLS, RunAutoCert) has started underlying server
\* i and appends it to s.servers; it does not look at s.closed
RunServer(i) ==
    /\ under[i] = "none"
    /\ under' = [under EXCEPT ![i] = "serving"]
    /\ servers' = servers \cup {i}
    /\ UNCHANGED <<closed, cl, clLog, obs>>

\* Close or Shutdown up to its compare-and-swap: the call that finds the
\* flag at 0 sets it and goes on, every other call returns ErrServerClosed
CloseBegin(g, op) ==
    /\ cl[g] = 0
    /\ Len(clLog) < MaxCloseCalls
    /\ IF CompareAndSwap(closed, 0)
       THEN /\ closed' = 1
            /\ clLog' = Append(clLog, NewCall(op))
            /\ cl' = [cl EXCEPT ![g] = Len(clLog) + 1]
       ELSE /\ clLog' = Append(clLog, [NewCall(op) EXCEPT !.ret = "ErrServerClosed"])
            /\ UNCHANGED <<closed, cl>>
    /\ UNCHANGED <<servers, under, obs>>

\* the rest of Close (of Shutdown), under s.serversMux: every server of
\* s.servers is closed (shut down), s.servers is set to nil, the call returns
CloseServers(g) ==
    /\ cl[g] # 0
    /\ LET c == cl[g]
           how == IF clLog[c].op = "Close" THEN "closed" ELSE "shutdown"
       IN  /\ under' = [i \in ServerIds |-> IF i \in servers THEN how ELSE under[i]]
           /\ clLog' = [clLog EXCEPT ![c].ret = "returned", ![c].touched = servers]
    /\ servers' = {}
    /\ cl' = [cl EXCEPT ![g] = 0]
    /\ UNCHANGED <<closed, obs>>

\* Closed(): atomic.LoadInt32(&s.closed) == 1; the history keeps the result
\* and how many calls of Close and Shutdown had begun
Closed ==
    /\ Len(obs) < MaxObs
    /\ obs' = Append(obs, [v |-> closed = 1, begun |-> Len(clLog)])
    /\ UNCHANGED <<closed, servers, under, cl, clLog>>

offClose == <<dispatchVars, limiterVars, serverVars, admissionVars, sweepVars,
              routerVars, groupVars, poolVars>>

CloseNext ==
    \/ \E i \in ServerIds : RunServer(i) /\ UNCHANGED offClose
    \/ \E g \in Callers : CloseBegin(g, "Close") /\ UNCHANGED offClose
    \/ \E g \in Callers : CloseBegin(g, "Shutdown") /\ UNCHANGED offClose
    \/ \E g \in Callers : CloseServers(g) /\ UNCHANGED offClose
    \/ Closed /\ UNCHANGED offClose

----------------------------------------------------------------------------
(***************************************************************************)
(* Groups.  Group.mw is a Go slice: a view (array, len, cap) of an array   *)
(* that other slices may share.  append writes into the array when the     *)
(* capacity allows it, and otherwise copies the elements to a new array.   *)
(* A middleware value is named by the group it was handed to and by its    *)
(* place among those handed to that group: <<g, k>>.                       *)
(***************************************************************************)
\* a nil slice
NilSlice == [arr |-> 0, len |-> 0, cap |-> 0]

\* the elements of slice s over the arrays hp
Elems(hp, s) == [i \in 1..s.len |-> hp[s.arr][i]]

\* (with a fault: the sub-group starts without the list of its parent)
Slice3_Nil(s) == NilSlice

\* (with a fault: g.mw[:len(g.mw)], which keeps the capacity)
Slice3_FullCap(s) == s

\* g.mw[:len(g.mw):len(g.mw)]: the same elements, the capacity cut to the
\* length
Slice3(s) == [s EXCEPT !.cap = s.len]

\* append(s, es...): the arrays and the slice after it; c is the capacity of
\* the new array, should append need one
GoAppend(hp, s, es, c) ==
    LET n == s.len + Len(es)
    IN  IF es = <<>> THEN [heap |-> hp, s |-> s]
        ELSE IF n <= s.cap
        THEN [heap |-> [hp EXCEPT ![s.arr] =
                           [i \in 1..s.cap |->
                               IF i > s.len /\ i <= n THEN es[i - s.len]
                               ELSE hp[s.arr][i]]],
              s |-> [s EXCEPT !.len = n]]
        ELSE [heap |-> Append(hp, [i \in 1..c |->
                                      IF i <= s.len THEN hp[s.arr][i]
                                      ELSE IF i <= n THEN es[i - s.len] ELSE <<>>]),
              s |-> [arr |-> Len(hp) + 1, len |-> n, cap |-> c]]

\* the capacities append may give an array that has to hold n elements
Caps(n) == n..(n + MaxSpare)

\* the next n middleware values handed to group g, which was handed k
\* before
Fresh(g, k, n) == [i \in 1..n |-> <<g, k + i>>]

GroupIds == 1..Len(groups)

\* the list of group g
MwOf(g) == Elems(heap, groups[g].mw)

\* a server as NewWithOpts returns it: its own group, without middleware
GroupInit ==
    /\ heap = <<>>
    /\ groups = <<[mw |-> NilSlice, parent |-> 0]>>
    /\ ghcG = 0
    /\ inherited = << <<>> >>
    /\ own = << <<>> >>

\* what the build phase leaves alone
offGroup == <<pcServe, mwIdx, hIdx, done, nextMW, next, stack, out, invoked,
              retval, doneSets, limiterVars, admissionVars, serverVars,
              sweepVars, routerVars, closeVars, poolVars>>

\* g.Use(mw...) with n middleware, in the build phase
Use(g, n) ==
    /\ pcServe = "idle"
    /\ groups[g].mw.len + n <= MaxMW
    /\ \E c \in Caps(groups[g].mw.len + n) :
          LET r == GoAppend(heap, groups[g].mw, Fresh(g, Len(own[g]), n), c)
          IN  /\ heap' = r.heap
              /\ groups' = [groups EXCEPT ![g].mw = r.s]
              /\ nMW' = IF g = ghcG THEN r.s.len ELSE nMW
    /\ own' = [own EXCEPT ![g] = @ \o Fresh(g, Len(@), n)]
    /\ UNCHANGED <<nHC, ghcG, inherited>>
    /\ UNCHANGED offGroup

\* g.SubGroup(name, path, mw...) with n middleware, in the build phase
SubGroup(g, n) ==
    /\ pcServe = "idle"
    /\ Len(groups) < MaxGroups
    /\ groups[g].mw.len + n <= MaxMW
    /\ \E c \in Caps(groups[g].mw.len + n) :
          LET r == GoAppend(heap, Slice3(groups[g].mw),
                            Fresh(Len(groups) + 1, 0, n), c)
          IN  /\ heap' = r.heap
              /\ groups' = Append(groups, [mw |-> r.s, parent |-> g])
    /\ inherited' = Append(inherited, MwOf(g))
    /\ own' = Append(own, Fresh(Len(groups) + 1, 0, n))
    /\ UNCHANGED <<nMW, nHC, ghcG>>
    /\ UNCHANGED offGroup

\* g.AddRoute(method, path, handlers...) with nH handlers: the route whose
\* Serve the request will be handed to
GroupAddRoute(g, nH) ==
    /\ pcServe = "idle"
    /\ ghcG = 0
    /\ ghcG' = g
    /\ nHC' = nH
    /\ nMW' = groups[g].mw.len
    /\ UNCHANGED <<heap, groups, inherited, own>>
    /\ UNCHANGED offGroup

\* how many middleware values were handed to the groups gs
RECURSIVE Handed(_)
Handed(ws) == IF ws = <<>> THEN 0 ELSE Len(Head(ws)) + Handed(Tail(ws))

\* the build phase of a server
GroupNext ==
    \/ \E g \in GroupIds, n \in 1..MaxMW :
          Use(g, n) /\ Handed(own) + n <= MaxHanded
    \/ \E g \in GroupIds, n \in 0..MaxMW :
          SubGroup(g, n) /\ Handed(own) + n <= MaxHanded

\* the build phase of a server that ends with a route on a sub-group, then
\* a request for that route, whose units return nil or a Response
SubRouteNext ==
    \/ \E g \in GroupIds, n \in 1..MaxMW :
          Use(g, n) /\ ghcG = 0 /\ Handed(own) + n <= MaxRouteHanded
    \/ \E g \in GroupIds, n \in 0..MaxMW :
          SubGroup(g, n) /\ ghcG = 0 /\ Len(groups) < MaxRouteGroups
                         /\ Handed(own) + n <= MaxRouteHanded
    \/ \E g \in GroupIds, nH \in 0..MaxHC :
          GroupAddRoute(g, nH) /\ groups[g].parent # 0
    \/ ghcG # 0 /\ Serve
    \/ ghcG # 0 /\ NextMiddleware
    \/ ghcG # 0 /\ NextHandler
    \/ ghcG # 0 /\ NextMWLoop
    \/ ghcG # 0 /\ NextLoop
    \/ ghcG # 0 /\ UnitReturn
    \/ ghcG # 0 /\ ServeReturn

----------------------------------------------------------------------------
(***************************************************************************)
(* The specifications.                                                     *)
(***************************************************************************)
\* the parts that are not part of a behaviour of the dispatch chain, and of
\* the limiter
\* a context that no request has used, and a request without Params
PoolOff ==
    /\ ctxParams = <<>>
    /\ inPool = TRUE
    /\ reqParams = <<>>
    /\ reqNo = 1
    /\ left = <<>>

\* the Params the router may match for request n
ParamsOf(n) == {<<>>, <<[name |-> "id", value |-> n]>>}

\* the first request, with the context in the pool
PoolInit ==
    /\ ctxParams = <<>>
    /\ inPool = TRUE
    /\ reqParams \in ParamsOf(1)
    /\ reqNo = 1
    /\ left = <<>>

\* the router hands the next request to the chain or to the not-found
\* handler, once the handling of the one before has ended; the cursors of the
\* call before are left as they were until Serve declares its own
NewRequest ==
    /\ \/ pcServe \in {"returned", "panicked"}
       \/ pcNF = "returned"
    /\ reqNo < MaxRequests
    /\ reqNo' = reqNo + 1
    /\ reqParams' \in ParamsOf(reqNo')
    /\ route' \in {"matched", "none"}
    /\ pcServe' = "idle"
    /\ pcNF' = "idle"
    /\ out' = <<>>
    /\ invoked' = <<>>
    /\ retval' = [u \in Units |-> "none"]
    /\ doneSets' = 0
    /\ fault' = "none"
    /\ nfCalls' = 0
    /\ nfOut' = <<>>
    /\ UNCHANGED <<nMW, nHC, mwIdx, hIdx, done, nextMW, next, stack>>
    /\ UNCHANGED <<cancelled, srvPanicHandler, srvNotFoundHandler, phCalls>>
    /\ UNCHANGED <<ctxParams, inPool, left>>
    /\ UNCHANGED <<limiterVars, admissionVars, otherVars>>

PoolNext ==
    \/ route = "matched" /\ DispatchNext
    \/ route = "matched" /\ UnitPanic
    \/ NotFoundCall
    \/ NotFoundWrite
    \/ NotFoundReturn
    \/ NewRequest

LateOff == CloseOff /\ GroupInit

DispatchOnly == LimiterOff /\ AdmissionOff /\ SweepOff /\ RouterInit /\ LateOff
                           /\ PoolOff

LimiterOnly == DispatchOff /\ ServerOff /\ RouterInit /\ LateOff /\ PoolOff

InitDispatch == DispatchInit /\ ServerOff /\ DispatchOnly

InitLimiter == LimiterInit /\ AdmissionOff /\ SweepOff /\ LimiterOnly

InitRegistry == RegistryInit /\ AdmissionOff /\ SweepOff /\ LimiterOnly

InitServer == DispatchInit /\ ServerInit /\ DispatchOnly

InitRouting == DispatchInit /\ RoutingInit /\ DispatchOnly

InitAdmission == RegistryInit /\ AdmissionInit /\ SweepOff /\ LimiterOnly

InitSweep == RegistryInit /\ AdmissionOff /\ SweepInit /\ LimiterOnly

InitRouter == RouterInit /\ DispatchOff /\ ServerOff /\ LimiterOff /\ AdmissionOff
                         /\ SweepOff /\ LateOff /\ PoolOff

InitClose == CloseOff /\ DispatchOff /\ ServerOff /\ LimiterOff /\ AdmissionOff
                      /\ SweepOff /\ RouterInit /\ GroupInit /\ PoolOff

InitGroup == GroupInit /\ DispatchOff /\ ServerOff /\ LimiterOff /\ AdmissionOff
                      /\ SweepOff /\ RouterInit /\ CloseOff /\ PoolOff

InitPool == DispatchInit /\ RoutingInit /\ PoolInit /\ LimiterOff /\ AdmissionOff
                          /\ SweepOff /\ RouterInit /\ LateOff
                          /\ nMW <= MaxPoolUnits /\ nHC <= MaxPoolUnits

SpecPool == InitPool /\ [][PoolNext]_vars

SpecDispatch == InitDispatch /\ [][DispatchNext]_vars

SpecLimiter == InitLimiter /\ [][LimiterNext]_vars

SpecRegistry == InitRegistry /\ [][RegistryNext]_vars

SpecKeys == InitRegistry /\ [][KeysNext]_vars

SpecServer == InitServer /\ [][ServerNext]_vars

SpecRouting == InitRouting /\ [][RoutingNext]_vars

SpecAdmission == InitAdmission /\ [][AdmissionNext]_vars

\* the goroutine of the sweep is scheduled as long as it can take a step
SpecSweep == InitSweep /\ [][SweepNext]_vars /\ WF_vars(Clean)

SpecRouter == InitRouter /\ [][RouterNext]_vars

SpecClose == InitClose /\ [][CloseNext]_vars

SpecGroup == InitGroup /\ [][GroupNext]_vars

SpecSubRoute == InitGroup /\ [][SubRouteNext]_vars

----------------------------------------------------------------------------
(***************************************************************************)
(* Properties of the dispatch chain.                                       *)
(***************************************************************************)
MWs == {i \in 0..MaxMW : i < nMW}

HCs == {i \in 0..MaxHC : i < nHC}

Written(ph, i) == \E k \in 1..Len(out) : out[k] = [by |-> "resp", ph |-> ph, i |-> i]

WasInvoked(u) == \E k \in 1..Len(invoked) : invoked[k] = u

SomeMWResponded == \E i \in MWs : retval[<<"mw", i>>] = "resp"

\* the step invokes a unit / a route handler
InvokesUnit == invoked' # invoked

InvokesHandler == /\ Len(invoked') = Len(invoked) + 1
                  /\ invoked'[Len(invoked')][1] = "h"

\* C1, as stated: if a group middleware returns a non-absent response, that
\* response is written, no later middleware and no route handler is invoked
\* for the request, and the done flag is set exactly once.  (Stated of the
\* requests that get one response written at most, so that a second write
\* plays no part in it.)
C1_Original ==
    \A i \in MWs : (retval[<<"mw", i>>] = "resp" /\ Len(out) <= 1) =>
        /\ Written("mw", i)
        /\ \A j \in MWs : j > i => ~WasInvoked(<<"mw", j>>)
        /\ \A j \in HCs : ~WasInvoked(<<"h", j>>)
        /\ doneSets = 1

\* C1, amended: if a group middleware returns a non-absent response, that
\* response is written, the done flag has been set exactly once, and from
\* then on no middleware and no route handler is invoked for the request
\* (units the middleware ran itself through ctx.Next() before it returned
\* have run already).
C1_ShortCircuit ==
    /\ [](\A i \in MWs : retval[<<"mw", i>>] = "resp" =>
              Written("mw", i) /\ doneSets = 1)
    /\ [][SomeMWResponded => ~InvokesUnit]_vars

C1_Witness ==
    /\ pcServe = "returned"
    /\ nMW = 2 /\ nHC >= 1
    /\ retval[<<"mw", 0>>] = "resp"
    /\ invoked = << <<"mw", 0>> >>
    /\ Len(out) = 1

\* C2: at most one response is written to the underlying output during
\* dispatch, whatever the units do.
C2_AtMostOneWrite == Len(out) <= 1

\* a unit precedes another in registration order: middleware before
\* handlers, and by index within one list
Precedes(u, v) == \/ u[1] = "mw" /\ v[1] = "h"
                  \/ u[1] = v[1] /\ u[2] < v[2]

InRegistrationOrder ==
    \A j, k \in 1..Len(invoked) : j < k => Precedes(invoked[j], invoked[k])

\* C3, as stated: units are invoked in registration order, and no route
\* handler is invoked before every group middleware has been invoked and
\* has returned the absent-response sentinel.
C3_Original ==
    /\ InRegistrationOrder
    /\ (\E j \in HCs : WasInvoked(<<"h", j>>)) =>
           \A i \in MWs : retval[<<"mw", i>>] = "nil"

\* C3, amended: units are invoked in registration order, and a route
\* handler is invoked only when every group middleware has been invoked and
\* none of them has returned a non-absent response (a middleware that called
\* ctx.Next() is still running then and has returned nothing yet).
C3_PhaseOrder ==
    /\ []InRegistrationOrder
    /\ [][InvokesHandler =>
             \A i \in MWs : /\ WasInvoked(<<"mw", i>>)
                            /\ retval[<<"mw", i>>] # "resp"]_vars

C3_Witness ==
    /\ nMW = 2 /\ nHC = 2
    /\ Len(invoked) = 4
    /\ \A i \in MWs : retval[<<"mw", i>>] = "nil"

\* the done flag is set, and the first write was a unit's own
DoneByUnit == done /\ out # <<>> /\ out[1].by = "unit"

\* C4: once the done flag has been set by a unit that finalized output
\* itself, no further middleware and no route handler is invoked, even if
\* units remain pending in the current or the next phase.
C4_DoneHalts == [][DoneByUnit => ~InvokesUnit]_vars

C4_Witness ==
    /\ pcServe = "returned"
    /\ nMW = 2 /\ nHC = 2
    /\ out = <<[by |-> "unit", ph |-> "mw", i |-> 0]>>
    /\ retval[<<"mw", 0>>] = "nil"
    /\ invoked = << <<"mw", 0>> >>

----------------------------------------------------------------------------
(***************************************************************************)
(* Properties of the rate limiter.                                         *)
(***************************************************************************)
LimiterIds == 1..Len(lims)

\* the last completed Allowed call
Last == hist[Len(hist)]

\* C5: under any interleaving of Allowed calls on one Limiter, the calls
\* that return no error between a window's start and its next restart never
\* exceed the maximum of that window, for the second, minute and hour window.
C5_WindowMax ==
    \A id \in LimiterIds :
        /\ tally[id].okSec <= lims[id].maxPerSecond
        /\ tally[id].okMin <= lims[id].maxPerMinute
        /\ tally[id].okHour <= lims[id].maxPerHour

C5_Witness ==
    /\ Len(hist) = 2
    /\ ~Last.fresh
    /\ ~Last.ok /\ Last.win = "second"
    /\ tally[1].okSec = lims[1].maxPerSecond
    /\ lims[1].maxPerSecond = 2

C7_SingleLimiter ==
    \A k \in Keys :
        /\ Cardinality(made[k]) <= 1
        /\ \A r \in got : r[1] = k => made[k] = {r[2]} /\ m[k] = r[2]

C7_Witness ==
    /\ <<"a", 1, "made">> \in got
    /\ <<"a", 1, "reread">> \in got
    /\ <<"a", 1, "read">> \in got

\* C8: for every Limiter, after any interleaving of Allowed calls,
\* totalAllowed counts exactly the calls that returned no error and
\* totalBlocked exactly those that returned an error, so that their sum is
\* the number of completed calls.
C8_TotalsCount ==
    \A id \in LimiterIds :
        /\ lims[id].totalAllowed = tally[id].retOk
        /\ lims[id].totalBlocked = tally[id].calls - tally[id].retOk

C8_Witness ==
    /\ tally[1].calls = 3
    /\ lims[1].totalAllowed >= 1
    /\ lims[1].totalBlocked >= 1
    /\ hist # <<>> /\ ~Last.fresh

\* the start of a window of length len that began at start, for a call at t
WindowStart(len, start, t) == IF t - start >= len THEN t ELSE start

\* a call at time t on limiter l would exceed the hour, minute, second maximum
OverHour(l, t) ==
    (IF WindowStart(SecondsPerHour, l.lastHour, t) = l.lastHour
     THEN l.reqPerHour ELSE 0) + 1 > l.maxPerHour

OverMinute(l, t) ==
    (IF WindowStart(SecondsPerMinute, l.lastMin, t) = l.lastMin
     THEN l.reqPerMinute ELSE 0) + 1 > l.maxPerMinute

OverSecond(l, t) ==
    (IF WindowStart(SecondsPerSecond, l.lastSec, t) = l.lastSec
     THEN l.reqPerSecond ELSE 0) + 1 > l.maxPerSecond

\* the time left in a window for a call at t
TimeLeft(len, start, t) == len - (t - WindowStart(len, start, t))

Several(a, b, c) == (a /\ b) \/ (a /\ c) \/ (b /\ c)

\* C9: when a call would exceed the maximum of more than one window, the
\* error and the retry delay are those of the coarsest exceeded window: hour
\* before minute, minute before second.
C9_CoarsestFirst ==
    hist # <<>> =>
        LET e == Last
            l == lastPre
            t == e.now
        IN  Several(OverHour(l, t), OverMinute(l, t), OverSecond(l, t)) =>
                IF OverHour(l, t)
                THEN /\ e.win = "hour"
                     /\ e.d = TimeLeft(SecondsPerHour, l.lastHour, t)
                ELSE /\ e.win = "minute"
                     /\ e.d = TimeLeft(SecondsPerMinute, l.lastMin, t)

C9_Witness ==
    /\ hist # <<>>
    /\ OverHour(lastPre, Last.now)
    /\ OverMinute(lastPre, Last.now)
    /\ OverSecond(lastPre, Last.now)
    /\ Last.now > 0
    /\ Last.win = "hour"

\* C10: whenever Allowed rejects a call and returns the delay d, a call on
\* the same limiter made d later, with no other call in between, is allowed.
C10_RetryAllowed ==
    (/\ Len(hist) = 2
     /\ hist[1].l = hist[2].l
     /\ ~hist[1].ok
     /\ hist[2].fresh
     /\ hist[2].now = hist[1].now + hist[1].d) => hist[2].ok

----------------------------------------------------------------------------
(***************************************************************************)
(* Properties of the admission middleware.                                 *)
(***************************************************************************)
\* the completed Allowed calls on all limiters
CompletedCalls ==
    LET F[i \in 0..Len(tally)] == IF i = 0 THEN 0 ELSE F[i - 1] + tally[i].calls
    IN  F[Len(tally)]

\* the requests for which the middleware has not called Allowed yet, or
\* whose call of Allowed has not returned yet
BeforeAllowedReturn == {g \in Callers : rl[g].stage \in {"get", "allowed"}}

\* C11: the admission middleware calls Allowed exactly once per request, on
\* the limiter of that request's caller key; it returns a response with
\* status 429 exactly when Allowed returned an error, and the
\* absent-response sentinel otherwise.
C11_Admission ==
    /\ CompletedCalls = reqs - Cardinality(BeforeAllowedReturn)
    /\ lastReq # NoReq =>
           /\ lastReq.n = 1
           /\ made[lastReq.key] = {lastReq.lim}
           /\ lastReq.resp = StatusTooManyRequests <=> lastReq.err
           /\ lastReq.resp = 0 <=> ~lastReq.err

C11_Witness ==
    /\ reqs = 2
    /\ \A g \in Callers : rl[g].stage = "idle"
    /\ lastReq.err
    /\ lastReq.resp = StatusTooManyRequests
    /\ lastReq.key = "b"
    /\ tally[lastReq.lim].retOk = 1

\* the smallest number of whole seconds that is not less than the duration d
CeilSeconds(d) == (d + SubSecond - 1) \div SubSecond

\* C12: on a rejection with headers enabled, Retry-After and
\* X-Rate-Limit-Reset both carry the retry delay that Allowed returned,
\* rounded up to whole seconds.
C12_RoundedUp ==
    (lastReq.err /\ setHeaders) =>
        /\ lastReq.hdr.retryAfter = <<CeilSeconds(lastReq.d)>>
        /\ lastReq.hdr.reset = <<CeilSeconds(lastReq.d)>>

----------------------------------------------------------------------------
(***************************************************************************)
(* Properties of the server around the dispatch chain.                     *)
(***************************************************************************)
\* C13: if a middleware or handler panics while the dispatch chain runs it,
\* the injected fault handler is invoked with the fault value, a fallback
\* error response is written, and the panic does not propagate out of the
\* dispatch chain to its caller.
C13_FaultContained ==
    (fault # "none" /\ srvPanicHandler) =>
        /\ phCalls = 1
        /\ out # <<>>
        /\ pcServe # "panicked"

\* C14: every dispatched request has had a response written by the time
\* the dispatch chain returns, also when every middleware and every handler
\* returns the absent-response sentinel without writing output.
C14_AlwaysWritten == pcServe = "returned" => out # <<>>

\* C17: once the cancellation/deadline signal of a request has fired, the
\* dispatch chain invokes no further middleware or handler for that request.
C17_CancelHalts == [][cancelled => ~InvokesUnit]_vars

\* C18: when no route matches a request, the injected NotFoundHandler, if
\* one is set, is invoked exactly once and no group middleware or route
\* handler runs; if none is set, the default not-found response is written.
C18_NotFound ==
    route = "none" =>
        /\ invoked = <<>>
        /\ nfCalls <= 1
        /\ pcNF = "returned" =>
               IF srvNotFoundHandler
               THEN /\ nfCalls = 1
                    /\ \A k \in 1..Len(nfOut) : nfOut[k] # "RespNotFound"
               ELSE /\ nfCalls = 0
                    /\ nfOut = <<"RespNotFound">>

C18_Witness ==
    /\ route = "none"
    /\ srvNotFoundHandler
    /\ pcNF = "returned"
    /\ nfCalls = 1
    /\ nfOut = <<"handler">>

----------------------------------------------------------------------------
(***************************************************************************)
(* Properties of the background sweep.                                     *)
(***************************************************************************)
\* the entry of key k is there, and the last Allowed call on its limiter
\* (or its creation) is more than the idle threshold ago
Idle(k) ==
    /\ m[k] # 0
    /\ clock - tally[m[k]].secT > CheckDuration
    /\ \A g \in Callers : pc[g] = "lock" => cur[g] # m[k]

\* C15: if no Allowed call is made on a key's limiter for longer than the
\* idle threshold (1h30m), the background sweep eventually removes that
\* entry from the registry (so that the next Get for the key makes a new
\* Limiter).
C15_IdleEvicted == \A k \in Keys : Idle(k) ~> (m[k] = 0 \/ ~Idle(k))

\* C16: when the context passed to NewLimiters is cancelled, the background
\* sweep eventually exits (returns from its loop), and it deletes no
\* registry entry afterwards.
C16_CancelStopsSweep ==
    /\ ctxCancelled ~> (sweep = "returned")
    /\ [][sweep = "returned" => \A k \in Keys : m[k] # 0 => m'[k] # 0]_vars

----------------------------------------------------------------------------
(***************************************************************************)
(* Properties of the router.                                               *)
(***************************************************************************)
\* the positions of pattern p that capture: its named segments and its
\* wildcard
CapturesAt(p) == {k \in 1..Len(p) : p[k][1] \in {"n", "w"}}

NamedAt(p) == {k \in 1..Len(p) : p[k][1] = "n"}

\* the j-th capturing position of pattern p
NthCapture(p, j) ==
    CHOOSE k \in CapturesAt(p) : Cardinality({i \in CapturesAt(p) : i < k}) = j - 1

\* what the segment at position k of pattern p stands for in path q
Bound(p, q, k) == IF p[k][1] = "w" THEN Join(SubSeq(q, k, Len(q))) ELSE q[k]

\* path q is an instance of pattern p
Instantiates(q, p) ==
    /\ IF p[Len(p)][1] = "w" THEN Len(q) >= Len(p) ELSE Len(q) = Len(p)
    /\ \A k \in 1..Len(p) : p[k][1] = "s" => q[k] = p[k][2]

Matched == serving /\ reqPath # <<>>

\* C19: matching a path against a pattern with several named segments
\* succeeds and yields Params that bind each parameter name to the path
\* segment at the same position, in pattern order (outer segments first), so
\* that lookup by name returns the corresponding segment.
C19_NamedParams ==
    Matched =>
        /\ \A p \in routes :
               (/\ routes = {p}
                /\ Cardinality(NamedAt(p)) >= 2
                /\ Instantiates(reqPath, p)) => res.found /\ res.h = p
        /\ (res.found /\ Cardinality(NamedAt(res.h)) >= 2) =>
               /\ Len(res.params) = Cardinality(CapturesAt(res.h))
               /\ \A j \in 1..Len(res.params) :
                      LET k == NthCapture(res.h, j)
                      IN  res.params[j] = [name |-> res.h[k][2],
                                           value |-> Bound(res.h, reqPath, k)]
               /\ \A k \in NamedAt(res.h) :
                      Get(res.params, res.h[k][2]) = reqPath[k]

C19_Witness ==
    /\ Matched
    /\ reqPath = TestPath
    /\ res.found
    /\ res.h = TestPattern
    /\ Get(res.params, "bkt") = "Personal"
    /\ Get(res.params, "type") = "data"
    /\ Get(res.params, "filename") = "hi.txt"
    /\ res.params[1].value = "Personal"

\* the order of preference of the kinds of segment
Rank(seg) == CASE seg[1] = "s" -> 1 [] seg[1] = "n" -> 2 [] seg[1] = "w" -> 3

\* the first position at which patterns a and b differ
FirstDiff(a, b) ==
    CHOOSE i \in 1..Len(a) : /\ i <= Len(b)
                             /\ a[i] # b[i]
                             /\ Prefix(a, i - 1) = Prefix(b, i - 1)

\* the walk of the last match came through the node
Reached(node) ==
    \/ node = <<>>
    \/ /\ Len(res.trail) >= Len(node)
       /\ res.trail[Len(node)] = node

\* C20: at every trie node Match prefers an exact static child over the
\* named child and the named child over the wildcard child; a path that
\* matches both a static route and a named-parameter sibling at the same
\* depth resolves to the static route's handler.
C20_Precedence ==
    Matched =>
        /\ res.found =>
               \A r \in routes :
                   (r # res.h /\ Instantiates(reqPath, r)) =>
                       LET i == FirstDiff(res.h, r)
                       IN  Rank(res.h[i]) < Rank(r[i])
        /\ \A a, b \in routes :
               (/\ Len(a) = Len(b)
                /\ Prefix(a, Len(a) - 1) = Prefix(b, Len(b) - 1)
                /\ Rank(a[Len(a)]) < Rank(b[Len(b)])
                /\ Instantiates(reqPath, a)
                /\ Instantiates(reqPath, b)
                /\ Reached(Prefix(a, Len(a) - 1))) =>
                   /\ ~(res.found /\ res.h = b)
                   /\ a[Len(a)][1] = "s" => res.found /\ res.h = a

C20_Witness ==
    /\ Matched
    /\ routes = { << <<"s", "users">>, <<"s", "list">> >>,
                  << <<"s", "users">>, <<"n", "id">> >>,
                  << <<"s", "users">>, <<"w", "fp">> >> }
    /\ reqPath = <<"users", "list">>
    /\ res.found
    /\ res.h = << <<"s", "users">>, <<"s", "list">> >>
    /\ res.params = <<>>

----------------------------------------------------------------------------
(***************************************************************************)
(* Re-entry into the chain.                                                *)
(***************************************************************************)
\* how often unit u was invoked
TimesInvoked(u) == Cardinality({k \in 1..Len(invoked) : invoked[k] = u})

\* C27: within one request each group middleware and each route handler is
\* invoked at most once, also when a unit re-enters the chain by calling
\* ctx.Next() from inside its own execution.
C27_AtMostOnce == \A u \in Units : TimesInvoked(u) <= 1

\* the first middleware called ctx.Next(), the rest of the chain ran inside
\* that call and has returned to it
C27_Witness ==
    /\ nMW = 2 /\ nHC = 2
    /\ Len(stack) = 3
    /\ Top.k = "unit" /\ Top.ph = "mw" /\ Top.i = 0 /\ Top.n = 1
    /\ Len(invoked) = 4

----------------------------------------------------------------------------
(***************************************************************************)
(* What a rejected call leaves alone.                                      *)
(***************************************************************************)
\* the Limiter as the last completed call left it
LastPost == lims[Last.l]

\* what a window's counter is after a call that counted it: one more than
\* before, or one if the call restarted the window
HourCounted ==
    LastPost.reqPerHour =
        (IF HourExpired(lastPre, Last.now) THEN 0 ELSE lastPre.reqPerHour) + 1

MinuteCounted ==
    LastPost.reqPerMinute =
        (IF MinuteExpired(lastPre, Last.now) THEN 0 ELSE lastPre.reqPerMinute) + 1

SecondCounted ==
    LastPost.reqPerSecond =
        (IF SecondExpired(lastPre, Last.now) THEN 0 ELSE lastPre.reqPerSecond) + 1

MinuteUntouched ==
    /\ LastPost.reqPerMinute = lastPre.reqPerMinute
    /\ LastPost.lastMin = lastPre.lastMin

SecondUntouched ==
    /\ LastPost.reqPerSecond = lastPre.reqPerSecond
    /\ LastPost.lastSec = lastPre.lastSec

\* C26: an Allowed call rejected by a window has counted that window and
\* every coarser window (one more than before, or one if the call restarted
\* the window), and has left the counters and the window-start timestamps of
\* every finer window as they were.
C26_FinerUntouched ==
    hist # <<>> =>
        /\ Last.win = "hour" => HourCounted /\ MinuteUntouched /\ SecondUntouched
        /\ Last.win = "minute" => HourCounted /\ MinuteCounted /\ SecondUntouched
        /\ Last.win = "second" => HourCounted /\ MinuteCounted /\ SecondCounted

\* a call rejected by the hour window at a time when the minute and the
\* second window had run out
C26_Witness ==
    /\ hist # <<>>
    /\ Last.win = "hour"
    /\ MinuteExpired(lastPre, Last.now)
    /\ SecondExpired(lastPre, Last.now)
    /\ lastPre.reqPerMinute > 0

----------------------------------------------------------------------------
(***************************************************************************)
(* Properties of Close, Shutdown and Closed.                               *)
(***************************************************************************)
CloseCalls == 1..Len(clLog)

\* the calls that went past the compare-and-swap
PastSwap == {c \in CloseCalls : clLog[c].ret # "ErrServerClosed"}

\* C23: across any interleaving of Close and Shutdown calls on one Server,
\* exactly one call performs the close of the underlying servers, every
\* other call returns ErrServerClosed without touching them, and Closed()
\* returns true from the first such call on and never false again.
C23_CloseOnce ==
    /\ clLog # <<>> => Cardinality(PastSwap) = 1
    /\ \A c \in CloseCalls \ PastSwap : clLog[c].touched = {}
    /\ \A i \in ServerIds : under[i] \in {"closed", "shutdown"} =>
           \E c \in PastSwap : i \in clLog[c].touched
    /\ \A c, e \in CloseCalls : c # e => clLog[c].touched \cap clLog[e].touched = {}
    /\ \A k \in 1..Len(obs) : obs[k].v <=> obs[k].begun > 0
    /\ \A j, k \in 1..Len(obs) : j < k /\ obs[j].v => obs[k].v

\* a Shutdown and a Close side by side: the one is still on its way to the
\* servers, the other has returned ErrServerClosed, and Closed() says true
C23_Witness ==
    /\ Len(clLog) >= 2
    /\ clLog[1].ret = "pending"
    /\ clLog[2].ret = "ErrServerClosed"
    /\ clLog[1].op # clLog[2].op
    /\ servers = ServerIds
    /\ obs # <<>> /\ obs[Len(obs)].v

----------------------------------------------------------------------------
(***************************************************************************)
(* Limiters of different keys.                                             *)
(***************************************************************************)
\* the step is the locked part of an Allowed call of goroutine g
CompletesAllowed(g) == pc[g] = "held" /\ pc'[g] = "idle"

\* goroutine g waits at l.mux.Lock() of its Allowed call
WaitsAtLock(g) ==
    /\ pc[g] = "lock"
    /\ ~ENABLED (AllowedLock(g) /\ UNCHANGED admissionVars)

\* C25: an Allowed call on the limiter of one key leaves the counters, the
\* window-start timestamps and the cumulative counts of every other key's
\* limiter unchanged, and it never waits on a lock held by an Allowed call
\* for a different key.
C25_KeysApart ==
    /\ [][\A g \in Callers : CompletesAllowed(g) =>
             /\ m[key[g]] = cur[g]
             /\ \A k \in Keys \ {key[g]} :
                    m[k] # 0 => m'[k] = m[k] /\ lims'[m[k]] = lims[m[k]]]_vars
    /\ [](\A g \in Callers : WaitsAtLock(g) =>
             \E h \in Callers : pc[h] = "held" /\ key[h] = key[g])

\* two Allowed calls for different keys at once, each behind the Lock of
\* its own limiter
C25_Witness ==
    /\ pc[1] = "held" /\ pc[2] = "held"
    /\ key[1] # key[2]
    /\ m[key[1]] = cur[1] /\ m[key[2]] = cur[2]

----------------------------------------------------------------------------
(***************************************************************************)
(* Properties of groups and sub-groups.                                    *)
(***************************************************************************)
\* a list of middleware values as units of a chain
AsUnits(ws) == [k \in 1..Len(ws) |-> <<"mw", ws[k]>>]

\* the units invoked for the request, in the order of their invocation, a
\* middleware by its value
InvokedValues ==
    [k \in 1..Len(invoked) |->
        IF invoked[k][1] = "mw"
        THEN <<"mw", MwOf(ghcG)[invoked[k][2] + 1]>>
        ELSE invoked[k]]

\* the chain of a route on sub-group g: the list of the parent as SubGroup
\* found it, the middleware handed to g, the handlers of the route
ChainOf(g) ==
    AsUnits(inherited[g]) \o AsUnits(own[g]) \o [k \in 1..nHC |-> <<"h", k - 1>>]

IsPrefix(a, b) == Len(a) <= Len(b) /\ a = SubSeq(b, 1, Len(a))

NoneResponded == \A k \in 1..Len(invoked) : retval[invoked[k]] = "nil"

UseOn(g) == Len(groups') = Len(groups) /\ own'[g] # own[g]

\* C28: after SubGroup has made a child group, Use on the child never
\* changes the list of the parent or of a sibling, and Use on the parent
\* never changes the list of the child: a call of Use on one group leaves
\* the list of every other group as it was.
C28_UseApart ==
    [][\A g \in GroupIds : UseOn(g) =>
          \A h \in GroupIds \ {g} : Elems(heap', groups'[h].mw) = MwOf(h)]_vars

\* a parent that was handed a middleware after SubGroup made a child which
\* shares its array, and a second child with a middleware of its own
C28_Witness ==
    /\ Len(groups) = 3
    /\ groups[2].parent = 1 /\ groups[3].parent = 1
    /\ MwOf(1) = << <<1, 1>>, <<1, 2>> >>
    /\ MwOf(2) = << <<1, 1>>, <<2, 1>> >>
    /\ MwOf(3) = << <<1, 1>> >>
    /\ groups[3].mw.arr = groups[1].mw.arr

\* the units of one phase invoked for the request
InvokedOf(ph) == Cardinality({k \in 1..Len(invoked) : invoked[k][1] = ph})

\* a request that holds the context sees the Params matched for it
OwnParams == ctxParams = reqParams /\ ~inPool

\* the step of Serve that takes the context and starts the chain
DispatchStarts == pcServe = "idle" /\ pcServe' = "running"

\* the step that puts the context into the pool
Released == ~inPool /\ inPool'

C22_Step ==
    /\ DispatchStarts =>
           /\ mwIdx' = 0
           /\ hIdx' = 0
           /\ ctxParams' = reqParams
           /\ ~inPool'
           /\ stack' = <<Frame("Next", "mw", 0, 0, 0)>>
    /\ Released =>
           /\ \/ pcServe = "running" /\ (stack = <<>> \/ fault' # "none")
              \/ pcNF = "called"
           /\ stack' = <<>>
           /\ ~nextMW' /\ ~next' /\ ~done'
           /\ ctxParams' = <<>>

C22_State ==
    /\ pcServe = "running" =>
           /\ OwnParams
           /\ mwIdx = InvokedOf("mw")
           /\ hIdx = InvokedOf("h")
    /\ pcNF = "called" => OwnParams /\ ~nextMW /\ ~next
    /\ inPool => stack = <<>> /\ ~nextMW /\ ~next /\ ctxParams = <<>>

\* C22: a request never sees what an earlier request left in the pooled
\* context: a dispatch starts with the Params matched for it and with both
\* cursors at zero, the cursors count the units invoked for this request
\* only, the not-found handler gets the Params of its request and no pending
\* continuation, and the context goes to the pool only when the chain has
\* ended (or a unit panicked), with its fields reset.
C22_NoStaleContext == [][C22_Step]_vars /\ []C22_State

\* the second request is dispatched with Params of its own through the whole
\* chain, after a request that left other Params in the context
C22_Witness ==
    /\ reqNo = 2
    /\ left # <<>>
    /\ pcServe = "running"
    /\ reqParams = <<[name |-> "id", value |-> 2]>>
    /\ OwnParams
    /\ nMW > 0 /\ mwIdx = nMW
    /\ nHC > 0 /\ hIdx = nHC

====
